---- MODULE Spec2Model ----
(***************************************************************************)
(* Attendance integrity and audit subsystem of the student management      *)
(* application (core/models.py, core/forms.py, core/views.py,              *)
(* core/utils.py, core/admin.py, core/decorators.py).                      *)
(*                                                                         *)
(* The record store is modelled as the committed Attendance table (a set   *)
(* of rows, each with its own primary key, so that two rows with the same  *)
(* (student, course, date) are representable), the committed AuditLog      *)
(* table (a sequence, in the order entries become visible) and, for every  *)
(* request inside "with transaction.atomic()", the uncommitted rows and    *)
(* audit entries of that transaction.  Other connections read committed    *)
(* data only; a key written by an open transaction is locked until that    *)
(* transaction commits or rolls back.                                      *)
(***************************************************************************)
EXTENDS Integers, Sequences, FiniteSets, TLC

\* ------------------------------------------------------------ bounds ----
\* students (and roll numbers)
NumStudents == 2
\* calendar days; the system clock (timezone.now().date()) reads day 1
\* throughout, so day 1 is today and the later days are future dates
MaxDate == 2
\* concurrent request workers
NumReq == 2
\* audit entries the log may hold
MaxAudit == 4
\* the admin site adds a row to a table of fewer than MaxRows rows and
\* edits a status in a table of at most MaxRows rows; the Grade, Assignment
\* and Event tables hold at most MaxRows rows each
MaxRows == 1
\* scores and maximum scores range over -1..MaxScore (whole points)
MaxScore == 10
\* days of attendance history the reports are computed over
StatDays == 3

\* ---------------------------------------------------------- fixtures ----
\* Student ids; a student's id doubles as its roll_no (Student.roll_no).
Students == 1..NumStudents
Courses == {"c1", "c2"}
Dates == 1..MaxDate
\* auth users: two teachers, one administrator, one student login, and one
\* staff user who also has a Teacher profile (and teaches no course)
Users == {"t1", "t2", "adm", "stu", "ta"}
Reqs == 1..NumReq
\* the users who send requests ("t2" only owns its course)
Actors == {"t1", "adm", "stu"}
\* the roster edits the administrator submits: course c1 is cut down to
\* student 1
EditedCourses == {"c1"}
EditedRosters == {{1}}

\* Course.teacher
CourseTeacher(c) == IF c = "c1" THEN "t1" ELSE "t2"
\* request.user.is_staff or request.user.is_superuser
is_admin_Everyone(u) == TRUE
is_admin(u) == u \in {"adm", "ta"}

\* null for a nullable foreign key / nullable boolean
None == "None"
\* a nullable boolean column holds None or the text of a boolean
NB(b) == IF b THEN "True" ELSE "False"

VARIABLES today, roster, attendance, auditlog, pc, req, tx, resp

\* the other tables: Student, Teacher (by user) and Course rows that exist,
\* and the Grade, Assignment and Event tables
VARIABLES student, teacher, course, grade, assignment, event

registry == <<student, teacher, course, grade, assignment, event>>

\* a report being computed (the queries it has made), the last report
\* returned, and the order in which the store lists rows that the ORDER BY
\* of a query leaves tied
VARIABLES calc, out, scan

reports == <<calc, out, scan>>

\* the browser of one visitor: the user of its session (request.user, None
\* while anonymous), its navigation (the URL name it is requesting and the
\* role in that URL, the URL name of a redirect it has received and not yet
\* followed, the last page rendered to it and the message of the last
\* response), and the auth users that exist
VARIABLES session, nav, account

web == <<session, nav, account>>

vars == <<today, roster, attendance, auditlog, pc, req, tx, resp,
          registry, reports, web>>

\* Teacher.objects.filter(user=request.user).exists()
is_teacher(u) == u \in teacher

\* Student.user of the Student rows: student 1 signs in as "stu", student 2
\* has no user (the column is nullable)
StudentUser(s) == IF s = 1 THEN "stu" ELSE None
\* Student.objects.filter(user=user).exists()
is_student(u) == \E s \in student : StudentUser(s) = u

\* a browser that has requested nothing yet
NoNav == [url |-> None, role |-> None, to |-> None, page |-> "none",
          msg |-> ""]

\* no report in progress / no report returned
NoCalc == [op |-> "none"]
NoOut == [op |-> "none"]

NoReq == [user |-> None, student |-> 0, course |-> None, date |-> 0,
          status |-> FALSE, on |-> {}]
NoTx == [students |-> <<>>, i |-> 0, rows |-> {}, log |-> <<>>,
         cur |-> <<>>, created |-> FALSE]
\* resp is the response sent by the step just taken, if it sent one
NoResp == [outcome |-> "none", errors |-> {}, marked_count |-> 0]

\* --------------------------------------------------------- the store ----
Key(row) == <<row.student, row.course, row.date>>

\* Attendance.objects.filter(student=s, course=c, date=d)
RowsAt(rel, s, c, d) ==
    {row \in rel : row.student = s /\ row.course = c /\ row.date = d}

Pks(rel) == {row.pk : row \in rel}

\* what the connection of request r reads: committed rows, overlaid with
\* the rows its own open transaction has written
View_OwnOnly(r) == tx[r].rows
View(r) == {row \in attendance : row.pk \notin Pks(tx[r].rows)} \cup tx[r].rows

\* transaction.atomic() isolation: what every other connection reads while
\* transactions are open (committed data only)
Visible_Dirty(committed, uncommitted) == uncommitted
Visible(committed, uncommitted) == committed

\* transaction.atomic() on an exception: the tables after the rollback
RolledBack_Partial(committed, uncommitted) == uncommitted
RolledBack(committed, uncommitted) == committed

\* the Attendance table with every uncommitted write applied
Dirty ==
    LET pending == UNION {tx[q].rows : q \in Reqs}
    IN  {row \in attendance : row.pk \notin Pks(pending)} \cup pending

\* the Attendance table as a query outside any open transaction sees it
ReaderView == Visible(attendance, Dirty)

\* rows written by open transactions of requests other than r
OthersPending(r) == UNION {tx[q].rows : q \in Reqs \ {r}}

\* the store's row lock: another open transaction has written this key
Locked(r, s, c, d) == RowsAt(OthersPending(r), s, c, d) # {}

\* a primary key no stored or uncommitted row has.  Keys are opaque; this
\* one names the (student, course, date) the row is inserted for and the
\* number of rows already present for it.
NewPk(s, c, d) ==
    LET used == Pks(RowsAt(Dirty, s, c, d))
    IN  <<s, c, d, CHOOSE n \in 0..Cardinality(used) : <<s, c, d, n>> \notin used>>

\* Attendance.Meta.unique_together, as checked against the rows rel for a
\* row that is about to be stored
UniqueViolation_Off(rel, row) == FALSE
UniqueViolation(rel, row) ==
    \E other \in rel : other.pk # row.pk /\ Key(other) = Key(row)

\* Attendance.clean: enrollment first, then the date; the first failing
\* check raises.  A course of None / a date of 0 stands for a field that
\* did not survive field validation and is therefore unset on the instance.
clean_SkipEnrollment(s, c, d, ros, now) ==
    IF d # 0 /\ d > now THEN {"FutureDate"} ELSE {}
clean_DateFirst(s, c, d, ros, now) ==
    IF d # 0 /\ d > now THEN {"FutureDate"}
    ELSE IF c # None /\ s # 0 /\ s \notin ros[c] THEN {"NotEnrolled"}
    ELSE {}
clean(s, c, d, ros, now) ==
    IF c # None /\ s # 0 /\ s \notin ros[c] THEN {"NotEnrolled"}
    ELSE IF d # 0 /\ d > now THEN {"FutureDate"}
    ELSE {}

\* the foreign keys of an Attendance row: its student and course rows exist
FKViolation(row) == row.student \notin student \/ row.course \notin course

\* Attendance.save up to the database write: full_clean() = clean_fields()
\* (the foreign keys refer to existing rows), clean() and validate_unique()
\* (which excludes the instance's own pk)
full_clean(rel, row, ros, now) ==
    (IF FKViolation(row) THEN {"DoesNotExist"} ELSE {})
      \cup clean(row.student, row.course, row.date, ros, now)
      \cup (IF UniqueViolation(rel, row) THEN {"DuplicateRecord"} ELSE {})

\* students.order_by('roll_no')
RECURSIVE order_by_roll_no(_)
order_by_roll_no(S) ==
    IF S = {} THEN <<>>
    ELSE LET m == CHOOSE x \in S : \A y \in S : x <= y
         IN  <<m>> \o order_by_roll_no(S \ {m})

\* utils.log_attendance_change: the AuditLog row it creates
log_attendance_change(action, att, user, old_status, new_status) ==
    [action |-> action, attendance |-> att.pk, user |-> user,
     student |-> att.student, course |-> att.course, date |-> att.date,
     old_status |-> old_status, new_status |-> new_status]

\* audit entries and rows that requests in flight may still add
Reserved ==
    LET n(q) == IF pc[q] \in {"bulk_upsert", "bulk_log"}
                  THEN Len(tx[q].students)
                ELSE IF pc[q] \in {"mark_clean", "mark_insert"} THEN 1
                ELSE 0
        sum[k \in 0..NumReq] == IF k = 0 THEN 0 ELSE sum[k - 1] + n(k)
    IN  sum[NumReq]

\* course c1 enrols every student, course c2 enrols student 1 only; no
\* attendance has been taken
Init ==
    /\ today = 1
    /\ roster = [c \in Courses |-> IF c = "c1" THEN Students ELSE {1}]
    /\ attendance = {}
    /\ auditlog = <<>>
    /\ pc = [r \in Reqs |-> "idle"]
    /\ req = [r \in Reqs |-> NoReq]
    /\ tx = [r \in Reqs |-> NoTx]
    /\ resp = NoResp
    /\ student = Students
    /\ teacher = {"t1", "t2", "ta"}
    /\ course = Courses
    /\ grade = {}
    /\ assignment = {}
    /\ event = {}
    /\ calc = NoCalc
    /\ out = NoOut
    /\ scan = "asc"
    /\ session = None
    /\ nav = NoNav
    /\ account = Users

\* the response of request r ends the request
Respond(r, outcome, errors, n) ==
    /\ pc' = [pc EXCEPT ![r] = "idle"]
    /\ req' = [req EXCEPT ![r] = NoReq]
    /\ tx' = [tx EXCEPT ![r] = NoTx]
    /\ resp' = [outcome |-> outcome, errors |-> errors, marked_count |-> n]

\* a new request is served by the first free worker
FreeWorker(r) == pc[r] = "idle" /\ \A q \in Reqs : q < r => pc[q] # "idle"

\* room left in the bounded audit log for one more writing request
Room(n) == Len(auditlog) + Reserved + n <= MaxAudit

\* ------------------------------------------- views.mark_attendance ----
\* the course choices of the AttendanceForm in mark_attendance
mark_courses(u) == {c \in course : CourseTeacher(c) = u}

\* AttendanceForm.is_valid(): field validation (student and course choice,
\* clean_date), then the instance's clean() on the fields that survived,
\* then validate_unique() when student, course and date all survived
AttendanceFormErrors_NoUnique(u, s, c, d, rel, ros, now) ==
    (IF s \notin student \/ c \notin mark_courses(u) THEN {"InvalidChoice"} ELSE {})
      \cup (IF d > now THEN {"FutureDate"} ELSE {})
      \cup (IF c \in mark_courses(u) /\ s \in student /\ s \notin ros[c]
              THEN {"NotEnrolled"} ELSE {})
AttendanceFormErrors(u, s, c, d, rel, ros, now) ==
    LET studentErr == IF s \notin student THEN {"InvalidChoice"} ELSE {}
        courseErr == IF c \notin mark_courses(u) THEN {"InvalidChoice"} ELSE {}
        dateErr == IF d > now THEN {"FutureDate"} ELSE {}
        ss == IF studentErr = {} THEN s ELSE 0
        cc == IF courseErr = {} THEN c ELSE None
        dd == IF dateErr = {} THEN d ELSE 0
        inst == [pk |-> <<>>, student |-> s, course |-> c, date |-> d]
        uniqErr == IF studentErr = {} /\ courseErr = {} /\ dateErr = {}
                        /\ UniqueViolation(rel, inst)
                     THEN {"DuplicateRecord"} ELSE {}
    IN  studentErr \cup courseErr \cup dateErr
          \cup clean(ss, cc, dd, ros, now) \cup uniqErr

\* POST /mark_attendance by user u, up to the end of form.is_valid():
\* @teacher_required, then the form.  A rejected request is answered at
\* once; an accepted one goes on to attendance.save().
mark_attendance(r, u, s, c, d, b) ==
    /\ FreeWorker(r)
    /\ Room(1)
    /\ LET errs == AttendanceFormErrors(u, s, c, d, ReaderView, roster, today)
       IN  IF ~is_teacher(u)
             THEN Respond(r, "forbidden", {"PermissionDenied"}, 0)
           ELSE IF errs # {}
             THEN Respond(r, "rejected", errs, 0)
           ELSE /\ pc' = [pc EXCEPT ![r] = "mark_clean"]
                /\ req' = [req EXCEPT ![r] =
                     [user |-> u, student |-> s, course |-> c, date |-> d,
                      status |-> b, on |-> {}]]
                /\ resp' = NoResp
                /\ UNCHANGED tx
    /\ UNCHANGED <<web, registry, reports, today, roster, attendance, auditlog>>

\* the instance mark_attendance is about to save (no primary key yet)
MarkRow(r, pk) ==
    [pk |-> pk, student |-> req[r].student, course |-> req[r].course,
     date |-> req[r].date, status |-> req[r].status, marked_by |-> req[r].user]

\* attendance.save(): self.full_clean()
MarkClean(r) ==
    /\ pc[r] = "mark_clean"
    /\ LET errs == full_clean(ReaderView, MarkRow(r, <<>>), roster, today)
       IN  IF errs # {}
             THEN Respond(r, "error", errs, 0)
           ELSE /\ pc' = [pc EXCEPT ![r] = "mark_insert"]
                /\ resp' = NoResp
                /\ UNCHANGED <<req, tx>>
    /\ UNCHANGED <<web, registry, reports, today, roster, attendance, auditlog>>

\* an INSERT into a table without the unique constraint
MarkInsert_NoConstraint(r) ==
    /\ pc[r] = "mark_insert"
    /\ LET row == MarkRow(r, NewPk(req[r].student, req[r].course, req[r].date))
       IN  /\ attendance' = attendance \cup {row}
           /\ auditlog' = Append(auditlog,
                  log_attendance_change("CREATE", row, req[r].user,
                                        None, NB(row.status)))
           /\ Respond(r, "ok", {}, 0)
    /\ UNCHANGED <<web, registry, reports, today, roster>>

\* attendance.save(): super().save(), the INSERT under the table's unique
\* and foreign-key constraints, followed by log_attendance_change('CREATE', ...)
MarkInsert(r) ==
    /\ pc[r] = "mark_insert"
    /\ ~Locked(r, req[r].student, req[r].course, req[r].date)
    /\ LET row == MarkRow(r, NewPk(req[r].student, req[r].course, req[r].date))
       IN  IF UniqueViolation(attendance, row) \/ FKViolation(row)
             THEN /\ Respond(r, "error", {"IntegrityError"}, 0)
                  /\ UNCHANGED <<attendance, auditlog>>
           ELSE /\ attendance' = attendance \cup {row}
                /\ auditlog' = Append(auditlog,
                       log_attendance_change("CREATE", row, req[r].user,
                                             None, NB(row.status)))
                /\ Respond(r, "ok", {}, 0)
    /\ UNCHANGED <<web, registry, reports, today, roster>>

\* ------------------------------------------- views.bulk_attendance ----
\* POST /bulk_attendance by user u; on = the students whose status_<id>
\* box was submitted as "on".
\* BulkAttendanceForm.__init__: the course choices offered to user u
bulk_courses(u) ==
    IF is_teacher(u) THEN {c \in course : CourseTeacher(c) = u}
    ELSE IF is_admin(u) THEN course
    ELSE {}

\* BulkAttendanceForm.is_valid(): course choice and clean_date
BulkFormErrors_NoDate(u, c, d, now) ==
    IF c \notin bulk_courses(u) THEN {"InvalidChoice"} ELSE {}
BulkFormErrors(u, c, d, now) ==
    (IF c \notin bulk_courses(u) THEN {"InvalidChoice"} ELSE {})
      \cup (IF d > now THEN {"FutureDate"} ELSE {})

\* @admin_or_teacher_required, form.is_valid(), the ownership check, then
\* entering transaction.atomic() and evaluating the roster query
bulk_attendance(r, u, c, d, on) ==
    /\ FreeWorker(r)
    /\ Room(NumStudents)
    /\ LET errs == BulkFormErrors(u, c, d, today)
       IN  IF ~(is_admin(u) \/ is_teacher(u))
             THEN Respond(r, "forbidden", {"PermissionDenied"}, 0)
           ELSE IF errs # {}
             THEN Respond(r, "rejected", errs, 0)
           ELSE IF is_teacher(u) /\ CourseTeacher(c) # u
             THEN Respond(r, "rejected", {"Forbidden"}, 0)
           ELSE /\ pc' = [pc EXCEPT ![r] = "bulk_upsert"]
                /\ req' = [req EXCEPT ![r] =
                     [user |-> u, student |-> 0, course |-> c, date |-> d,
                      status |-> FALSE, on |-> on]]
                /\ tx' = [tx EXCEPT ![r] =
                     [NoTx EXCEPT !.students = order_by_roll_no(roster[c])]]
                /\ resp' = NoResp
    /\ UNCHANGED <<web, registry, reports, today, roster, attendance, auditlog>>

\* an exception leaves the atomic block: rollback, then the error response
\* (marked_count is the handler's local counter when it ended)
Abort(r, errs) ==
    /\ attendance' = RolledBack(attendance, View(r))
    /\ auditlog' = RolledBack(auditlog, auditlog \o tx[r].log)
    /\ Respond(r, "error", errs, tx[r].i)

\* status = request.POST.get(f"status_{student.id}") == "on"
posted_status_AllPresent(on, s) == TRUE
posted_status(on, s) == s \in on

\* action = 'CREATE' if created else 'UPDATE'
bulk_action_AlwaysCreate(created) == "CREATE"
bulk_action(created) == IF created THEN "CREATE" ELSE "UPDATE"

\* Attendance.objects.update_or_create(student, course, date, defaults=...)
\* for the next student of the roster
BulkUpsert(r) ==
    /\ pc[r] = "bulk_upsert"
    /\ tx[r].i < Len(tx[r].students)
    /\ LET q == req[r]
           s == tx[r].students[tx[r].i + 1]
           found == RowsAt(View(r), s, q.course, q.date)
           status == posted_status(q.on, s)
       IN  /\ ~Locked(r, s, q.course, q.date)
           /\ IF Cardinality(found) > 1
                THEN Abort(r, {"MultipleObjectsReturned"})
              ELSE LET row == IF found = {}
                                THEN [pk |-> NewPk(s, q.course, q.date), student |-> s,
                                      course |-> q.course, date |-> q.date,
                                      status |-> status, marked_by |-> q.user]
                              ELSE [(CHOOSE o \in found : TRUE) EXCEPT
                                      !.status = status, !.marked_by = q.user]
                       errs == full_clean(View(r), row, roster, today)
                   IN  IF errs # {}
                         THEN Abort(r, errs)
                       ELSE /\ tx' = [tx EXCEPT ![r].rows =
                                 {o \in @ : o.pk # row.pk} \cup {row},
                                             ![r].cur = row.pk,
                                             ![r].created = (found = {})]
                            /\ pc' = [pc EXCEPT ![r] = "bulk_log"]
                            /\ resp' = NoResp
                            /\ UNCHANGED <<attendance, auditlog, req>>
    /\ UNCHANGED <<web, registry, reports, today, roster>>

\* bulk_attendance lines 723-727: the old_status handed to the audit logger
bulk_old_status(rel, att, created) ==
    LET others == {o \in RowsAt(rel, att.student, att.course, att.date) :
                     o.pk # att.pk}
    IN  IF created \/ others = {} THEN None
        ELSE NB((CHOOSE o \in others : TRUE).status)

\* a logger that writes no entry when the stored status is the submitted one
BulkLog_SkipUnchanged(r) ==
    /\ pc[r] = "bulk_log"
    /\ LET att == CHOOSE o \in tx[r].rows : o.pk = tx[r].cur
           action == bulk_action(tx[r].created)
           old == bulk_old_status(View(r), att, tx[r].created)
           same == \E o \in attendance : o.pk = att.pk /\ o.status = att.status
       IN  tx' = [tx EXCEPT ![r].log =
                      IF same THEN @
                      ELSE Append(@, log_attendance_change(action, att, req[r].user,
                                                           old, NB(att.status))),
                            ![r].i = @ + 1]
    /\ pc' = [pc EXCEPT ![r] = "bulk_upsert"]
    /\ resp' = NoResp
    /\ UNCHANGED <<web, registry, reports, today, roster, attendance, auditlog, req>>

\* log_attendance_change(action, attendance, ...); marked_count += 1
BulkLog(r) ==
    /\ pc[r] = "bulk_log"
    /\ LET att == CHOOSE o \in tx[r].rows : o.pk = tx[r].cur
           action == bulk_action(tx[r].created)
           old == bulk_old_status(View(r), att, tx[r].created)
           status == posted_status(req[r].on, att.student)
       IN  tx' = [tx EXCEPT ![r].log = Append(@,
                      log_attendance_change(action, att, req[r].user, old,
                                            NB(status))),
                            ![r].i = @ + 1]
    /\ pc' = [pc EXCEPT ![r] = "bulk_upsert"]
    /\ resp' = NoResp
    /\ UNCHANGED <<web, registry, reports, today, roster, attendance, auditlog, req>>

\* a commit that stores the entries of the transaction in place of the log
BulkCommit_ReplaceLog(r) ==
    /\ pc[r] = "bulk_upsert"
    /\ tx[r].i = Len(tx[r].students)
    /\ attendance' = View(r)
    /\ auditlog' = tx[r].log
    /\ Respond(r, "ok", {}, tx[r].i)
    /\ UNCHANGED <<web, registry, reports, today, roster>>

\* the loop is over: the atomic block commits, then the success message
BulkCommit(r) ==
    /\ pc[r] = "bulk_upsert"
    /\ tx[r].i = Len(tx[r].students)
    /\ attendance' = View(r)
    /\ auditlog' = auditlog \o tx[r].log
    /\ Respond(r, "ok", {}, tx[r].i)
    /\ UNCHANGED <<web, registry, reports, today, roster>>

\* the store fails while persisting or auditing a student's row
BulkFail(r) ==
    /\ pc[r] \in {"bulk_upsert", "bulk_log"}
    /\ tx[r].i < Len(tx[r].students)
    /\ Abort(r, {"DatabaseError"})
    /\ UNCHANGED <<web, registry, reports, today, roster>>

\* ------------------------------------------- admin.AttendanceAdmin ----
\* the add form of the admin site: ModelForm validation and save()
AdminAdd(u, s, c, d, b, m) ==
    /\ is_admin(u)
    /\ Cardinality(attendance) < MaxRows
    /\ ~Locked(0, s, c, d)
    /\ LET row == [pk |-> NewPk(s, c, d), student |-> s, course |-> c, date |-> d,
                   status |-> b, marked_by |-> m]
       IN  /\ full_clean(ReaderView, row, roster, today) = {}
           /\ ~UniqueViolation(attendance, row)
           /\ attendance' = attendance \cup {row}
    /\ resp' = NoResp
    /\ UNCHANGED <<web, registry, reports, today, roster, auditlog, pc, req, tx>>

\* list_editable = ('status',): the change list saves a new status
AdminEditStatus(u, row, b) ==
    /\ is_admin(u)
    /\ row \in attendance
    /\ row.status # b
    /\ Cardinality(attendance) <= MaxRows
    /\ ~Locked(0, row.student, row.course, row.date)
    /\ LET new == [row EXCEPT !.status = b]
       IN  /\ full_clean(ReaderView, new, roster, today) = {}
           /\ attendance' = (attendance \ {row}) \cup {new}
    /\ resp' = NoResp
    /\ UNCHANGED <<web, registry, reports, today, roster, auditlog, pc, req, tx>>

\* --------------------------------------------------- views.edit_course ----
\* an edit that also deletes the attendance of the students it removes
edit_course_Purge(u, c, S) ==
    /\ is_admin(u)
    /\ S # {}
    /\ S # roster[c]
    /\ roster' = [roster EXCEPT ![c] = S]
    /\ attendance' = {row \in attendance : row.course = c => row.student \in S}
    /\ resp' = NoResp
    /\ UNCHANGED <<web, registry, reports, today, auditlog, pc, req, tx>>

\* @admin_required; CourseForm saves the submitted student set (the
\* students field is required, so the set is not empty)
edit_course(u, c, S) ==
    /\ is_admin(u)
    /\ S # {}
    /\ S # roster[c]
    /\ roster' = [roster EXCEPT ![c] = S]
    /\ resp' = NoResp
    /\ UNCHANGED <<web, registry, reports, today, attendance, auditlog, pc, req, tx>>

\* -------------------------------------------------- grades and events ----
Scores == -1..MaxScore
AssignmentNames == {"hw1"}

\* Grade.calculate_grade: percentage = (score / max_score) * 100 against
\* the thresholds 90, 80, 70, 60 (exact decimal arithmetic, compared here
\* after multiplying out max_score, which is positive)
calculate_grade_Strict(score, max_score) ==
    IF max_score > 0
      THEN IF score * 100 > 90 * max_score THEN "A"
           ELSE IF score * 100 > 80 * max_score THEN "B"
           ELSE IF score * 100 > 70 * max_score THEN "C"
           ELSE IF score * 100 > 60 * max_score THEN "D"
           ELSE "F"
    ELSE ""
calculate_grade(score, max_score) ==
    IF max_score > 0
      THEN IF score * 100 >= 90 * max_score THEN "A"
           ELSE IF score * 100 >= 80 * max_score THEN "B"
           ELSE IF score * 100 >= 70 * max_score THEN "C"
           ELSE IF score * 100 >= 60 * max_score THEN "D"
           ELSE "F"
    ELSE ""

\* a save that computes the letter every time
Grade_save_Always(g) == [g EXCEPT !.grade = calculate_grade(g.score, g.max_score)]

\* Grade.save: the letter is computed when the grade field is blank
Grade_save(g) ==
    IF g.grade = "" THEN [g EXCEPT !.grade = calculate_grade(g.score, g.max_score)]
    ELSE g

\* the student choices of the GradeForm in add_grade
grade_students(u) ==
    IF is_teacher(u)
      THEN {s \in student : \E c \in course : CourseTeacher(c) = u /\ s \in roster[c]}
    ELSE student

\* the course choices of the GradeForm / EventForm in add_grade, add_event
grade_courses(u) ==
    IF is_teacher(u) THEN {c \in course : CourseTeacher(c) = u} ELSE course

\* GradeForm.is_valid(): the choices, GradeForm.clean and unique_together
GradeFormErrors(u, s, c, name, score, max_score) ==
    (IF s \notin grade_students(u) \/ c \notin grade_courses(u)
       THEN {"InvalidChoice"} ELSE {})
      \cup (IF score # 0 /\ max_score # 0
              THEN IF score > max_score THEN {"ScoreTooHigh"}
                   ELSE IF score < 0 THEN {"NegativeScore"}
                   ELSE {}
            ELSE {})
      \cup (IF \E g \in grade : g.student = s /\ g.course = c
                                  /\ g.assignment_name = name
              THEN {"DuplicateRecord"} ELSE {})

\* POST /add_grade by user u
add_grade(u, s, c, name, score, max_score) ==
    /\ is_admin(u) \/ is_teacher(u)
    /\ Cardinality(grade) < MaxRows
    /\ GradeFormErrors(u, s, c, name, score, max_score) = {}
    /\ grade' = grade \cup
         {Grade_save([student |-> s, course |-> c, assignment_name |-> name,
                      score |-> score, max_score |-> max_score, grade |-> ""])}
    /\ resp' = NoResp
    /\ UNCHANGED <<web, reports, today, roster, attendance, auditlog, pc, req, tx,
                   student, teacher, course, assignment, event>>

\* the add form of the admin site for Grade: any score and maximum score,
\* the grade letter left blank
GradeAdminAdd(u, s, c, name, score, max_score) ==
    /\ is_admin(u)
    /\ Cardinality(grade) < MaxRows
    /\ s \in student /\ c \in course
    /\ ~\E g \in grade : g.student = s /\ g.course = c /\ g.assignment_name = name
    /\ grade' = grade \cup
         {Grade_save([student |-> s, course |-> c, assignment_name |-> name,
                      score |-> score, max_score |-> max_score, grade |-> ""])}
    /\ resp' = NoResp
    /\ UNCHANGED <<web, reports, today, roster, attendance, auditlog, pc, req, tx,
                   student, teacher, course, assignment, event>>

\* the change form of the admin site for the Grade row g: the submitted
\* score, maximum score and grade letter (the stored one when the field is
\* left as it is, "" when it is cleared), then Grade.save()
GradeAdminChange(u, g, score, max_score, letter) ==
    /\ is_admin(u)
    /\ g \in grade
    /\ grade' = (grade \ {g}) \cup
         {Grade_save([g EXCEPT !.score = score, !.max_score = max_score,
                               !.grade = letter])}
    /\ grade' # grade
    /\ resp' = NoResp
    /\ UNCHANGED <<web, reports, today, roster, attendance, auditlog, pc, req, tx,
                   student, teacher, course, assignment, event>>

\* the add form of the admin site for Assignment
AssignmentAdminAdd(u, c) ==
    /\ is_admin(u)
    /\ Cardinality(assignment) < MaxRows
    /\ c \in course
    /\ assignment' = assignment \cup {[pk |-> Cardinality(assignment), course |-> c]}
    /\ resp' = NoResp
    /\ UNCHANGED <<web, reports, today, roster, attendance, auditlog, pc, req, tx,
                   student, teacher, course, grade, event>>

\* POST /add_event by user u; c = None is an event of no course
add_event(u, c) ==
    /\ is_admin(u) \/ is_teacher(u)
    /\ Cardinality(event) < MaxRows
    /\ c = None \/ c \in grade_courses(u)
    /\ event' = event \cup {[pk |-> Cardinality(event), course |-> c]}
    /\ resp' = NoResp
    /\ UNCHANGED <<web, reports, today, roster, attendance, auditlog, pc, req, tx,
                   student, teacher, course, grade, assignment>>

\* ------------------------------------------------------------ deletes ----
\* the store's write lock: a delete waits while an open transaction holds
\* uncommitted rows
NoOpenWrites == \A r \in Reqs : tx[r].rows = {}

\* AuditLog.attendance, on_delete=CASCADE: the entries left when the
\* Attendance rows with primary keys pks are deleted
AuditAfterDelete(log, pks) == SelectSeq(log, LAMBDA e : e.attendance \notin pks)

\* AuditLog.student and AuditLog.course, on_delete=SET_NULL
AuditSetNull(log, S, C) ==
    [i \in 1..Len(log) |->
        [log[i] EXCEPT !.student = IF @ \in S THEN None ELSE @,
                       !.course = IF @ \in C THEN None ELSE @]]

\* a delete that removes the students S, the courses C and the rows R and
\* leaves the rows that refer to them
Collector_delete_NoCascade(S, C, R) ==
    /\ attendance' = attendance \ R
    /\ auditlog' = AuditSetNull(AuditAfterDelete(auditlog, Pks(R)), S, C)
    /\ UNCHANGED <<grade, assignment, event>>
    /\ roster' = [c \in Courses |-> IF c \in C THEN {} ELSE roster[c] \ S]
    /\ student' = student \ S
    /\ course' = course \ C

\* Model.delete(): the cascade from the students S, the courses C and the
\* Attendance rows R
Collector_delete(S, C, R) ==
    LET gone == R \cup {row \in attendance : row.student \in S \/ row.course \in C}
    IN  /\ attendance' = attendance \ gone
        /\ auditlog' = AuditSetNull(AuditAfterDelete(auditlog, Pks(gone)), S, C)
        /\ grade' = {g \in grade : g.student \notin S /\ g.course \notin C}
        /\ assignment' = {a \in assignment : a.course \notin C}
        /\ event' = {e \in event : e.course \notin C}
        /\ roster' = [c \in Courses |-> IF c \in C THEN {} ELSE roster[c] \ S]
        /\ student' = student \ S
        /\ course' = course \ C

\* POST /delete_student by user u
delete_student(u, s) ==
    /\ is_admin(u)
    /\ s \in student
    /\ NoOpenWrites
    /\ Collector_delete({s}, {}, {})
    /\ resp' = NoResp
    /\ UNCHANGED <<web, reports, today, pc, req, tx, teacher>>

\* POST /delete_course by user u
delete_course(u, c) ==
    /\ is_admin(u)
    /\ c \in course
    /\ NoOpenWrites
    /\ Collector_delete({}, {c}, {})
    /\ resp' = NoResp
    /\ UNCHANGED <<web, reports, today, pc, req, tx, teacher>>

\* POST /delete_teacher by user u: Course.teacher is on_delete=CASCADE
delete_teacher(u, t) ==
    /\ is_admin(u)
    /\ t \in teacher
    /\ NoOpenWrites
    /\ Collector_delete({}, {c \in course : CourseTeacher(c) = t}, {})
    /\ teacher' = teacher \ {t}
    /\ resp' = NoResp
    /\ UNCHANGED <<web, reports, today, pc, req, tx>>

\* the admin site deletes an Attendance row
AdminDelete(u, row) ==
    /\ is_admin(u)
    /\ row \in attendance
    /\ NoOpenWrites
    /\ Collector_delete({}, {}, {row})
    /\ resp' = NoResp
    /\ UNCHANGED <<web, reports, today, pc, req, tx, teacher>>

\* the requests that can arrive: users in U at workers in W
Requests(W, U) ==
    \/ \E r \in W, u \in U, s \in Students, c \in Courses,
          d \in Dates, b \in BOOLEAN : mark_attendance(r, u, s, c, d, b)
    \/ \E r \in W : MarkClean(r)
    \/ \E r \in W : MarkInsert(r)
    \/ \E r \in W, u \in U, c \in Courses, d \in Dates,
          on \in SUBSET Students : bulk_attendance(r, u, c, d, on)
    \/ \E r \in W : BulkUpsert(r)
    \/ \E r \in W : BulkLog(r)
    \/ \E r \in W : BulkCommit(r)
    \/ \E r \in W : BulkFail(r)

Next ==
    \/ Requests({1}, Actors)
    \/ \E u \in Actors, s \in Students, c \in Courses, d \in Dates,
          b \in BOOLEAN, m \in {None} : AdminAdd(u, s, c, d, b, m)
    \/ \E u \in Actors, row \in attendance, b \in BOOLEAN :
          AdminEditStatus(u, row, b)
    \/ \E u \in Actors, c \in EditedCourses, S \in EditedRosters :
          edit_course(u, c, S)

Spec == Init /\ [][Next]_vars

\* the course's teacher sends requests that NumReq workers serve concurrently
RaceNext == Requests(Reqs, {"t1"})

SpecRace == Init /\ [][RaceNext]_vars

\* ------------------------------------------------------------ reports ----
\* round(100 * num / den, 2) in hundredths of a percent; a tie goes to the
\* even neighbour, as Python's round does
round2_Floor(num, den) == (10000 * num) \div den
round2(num, den) ==
    LET q == (10000 * num) \div den
        rem == (10000 * num) % den
    IN  IF 2 * rem > den THEN q + 1
        ELSE IF 2 * rem < den THEN q
        ELSE IF q % 2 = 0 THEN q ELSE q + 1

\* Attendance.objects.filter(student=student, course=course)
RowsOfPair(rel, s, c) == {row \in rel : row.student = s /\ row.course = c}

\* Attendance.objects.filter(course=course)
RowsOfCourse_All(rel, c) == rel
RowsOfCourse(rel, c) == {row \in rel : row.course = c}

\* calculate_attendance_percentage, first query: total_records, and the
\* early return of 0.0
calculate_attendance_percentage(s, c) ==
    /\ calc = NoCalc
    /\ LET total_records == Cardinality(RowsOfPair(ReaderView, s, c))
       IN  IF total_records = 0
             THEN /\ out' = [op |-> "percentage", student |-> s, course |-> c,
                             value |-> 0]
                  /\ calc' = NoCalc
           ELSE /\ calc' = [op |-> "percentage", student |-> s, course |-> c,
                            total_records |-> total_records]
                /\ out' = NoOut
    /\ UNCHANGED <<web, scan, registry, today, roster, attendance, auditlog, pc, req,
                   tx, resp>>

\* calculate_attendance_percentage, second query: present_count, and the
\* rounded result
PercentagePresent ==
    /\ calc # NoCalc
    /\ LET present_count ==
             Cardinality({row \in RowsOfPair(ReaderView, calc.student, calc.course) :
                            row.status})
       IN  out' = [op |-> "percentage", student |-> calc.student,
                   course |-> calc.course,
                   value |-> round2(present_count, calc.total_records)]
    /\ calc' = NoCalc
    /\ UNCHANGED <<web, scan, registry, today, roster, attendance, auditlog, pc, req,
                   tx, resp>>

\* utils.get_course_attendance_stats over the table rel
course_attendance_stats(rel, c) ==
    LET total_records == Cardinality(RowsOfCourse(rel, c))
        present_count == Cardinality({row \in RowsOfCourse(rel, c) : row.status})
        absent_count == Cardinality({row \in RowsOfCourse(rel, c) : ~row.status})
    IN  [op |-> "stats", course |-> c,
         total_classes |-> Cardinality({row.date : row \in RowsOfCourse(rel, c)}),
         total_records |-> total_records,
         present_count |-> present_count,
         absent_count |-> absent_count,
         enrolled_students |-> Cardinality(roster[c]),
         average_attendance |-> IF total_records > 0
                                  THEN round2(present_count, total_records)
                                ELSE 0]

\* a call of get_course_attendance_stats(course)
get_course_attendance_stats(c) ==
    /\ calc = NoCalc
    /\ out' = course_attendance_stats(ReaderView, c)
    /\ UNCHANGED <<web, calc, scan, registry, today, roster, attendance, auditlog, pc,
                   req, tx, resp>>

\* Student.name, Student.roll_no (an IntegerField) and Course.name of the
\* rows in the Student and Course tables
Student_name(s) == IF s = 1 THEN "S1" ELSE "S2"
Student_roll_no(s) == 100 + s
Course_name(c) == IF c = "c1" THEN "Course 1" ELSE "Course 2"

\* str(date) of day d
str_date(d) == "2024-01-0" \o ToString(d)

\* the orders in which the store may list tied rows: by primary key,
\* ascending or descending
ScanOrders == {"asc", "desc"}
ScanRank(row) ==
    4 * row.student + 2 * (IF row.course = "c1" THEN 0 ELSE 1) + row.pk[4]

\* Attendance.objects...order_by('-date'): later dates first, rows of one
\* date as the store lists them
RECURSIVE order_by_date_desc(_, _)
order_by_date_desc(rel, sc) ==
    IF rel = {} THEN <<>>
    ELSE LET first(x, y) ==
               \/ x.date > y.date
               \/ /\ x.date = y.date
                  /\ IF sc = "asc" THEN ScanRank(x) <= ScanRank(y)
                     ELSE ScanRank(x) >= ScanRank(y)
             m == CHOOSE x \in rel : \A y \in rel : first(x, y)
         IN  <<m>> \o order_by_date_desc(rel \ {m}, sc)

\* utils.filter_attendance; None is a parameter that is not given, "" the
\* cleaned value of a blank status
filter_attendance(rel, course_id, student_id, date_from, date_to, status) ==
    {row \in rel :
        /\ course_id # None => row.course = course_id
        /\ student_id # None => row.student = student_id
        /\ date_from # None => row.date >= date_from
        /\ date_to # None => row.date <= date_to
        /\ status # None => row.status = (status = "True")}

\* 'Present' if attendance.status else 'Absent'
status_text_Flipped(b) == IF b THEN "Absent" ELSE "Present"
status_text(b) == IF b THEN "Present" ELSE "Absent"

\* attendance.marked_by.username if attendance.marked_by else 'N/A'
marked_by_text(m) == IF m # None THEN m ELSE "N/A"

\* the CSV export of the listed rows: the header row, then one row of text
\* cells per record (csv.writer writes str() of the date and the roll number)
csv_export(list) ==
    <<<<"Date", "Student Name", "Roll No", "Course", "Status", "Marked By">>>>
      \o [i \in 1..Len(list) |->
            <<str_date(list[i].date), Student_name(list[i].student),
              ToString(Student_roll_no(list[i].student)),
              Course_name(list[i].course), status_text(list[i].status),
              marked_by_text(list[i].marked_by)>>]

\* the JSON export of the listed rows: one object per record
json_export(list) ==
    [i \in 1..Len(list) |->
       [date |-> str_date(list[i].date),
        student_name |-> Student_name(list[i].student),
        roll_no |-> Student_roll_no(list[i].student),
        course |-> Course_name(list[i].course),
        status |-> status_text(list[i].status),
        marked_by |-> marked_by_text(list[i].marked_by)]]

\* the course and student choices of the AttendanceFilterForm for user u
filter_courses(u) ==
    IF is_teacher(u) THEN {c \in course : CourseTeacher(c) = u} ELSE course
filter_students(u) ==
    IF is_teacher(u)
      THEN {s \in student : \E c \in course : CourseTeacher(c) = u /\ s \in roster[c]}
    ELSE student

\* no filter was applied to an export
Unfiltered == [course |-> None, student |-> None, status |-> None]

\* GET /attendance/export/ by user u with the query parameters format, course,
\* student and status (None: not given); date_from and date_to are not given.
\* The form is bound when the query string is not empty, and the filter is
\* applied when the form is valid; a blank status is cleaned to "", which the
\* BooleanField lookup of filter_attendance refuses.
export_attendance(u, format, c, s, st) ==
    /\ is_admin(u) \/ is_teacher(u)
    /\ calc = NoCalc
    /\ LET bound == format # None \/ c # None \/ s # None \/ st # None
           valid == /\ bound
                    /\ c = None \/ c \in filter_courses(u)
                    /\ s = None \/ s \in filter_students(u)
           format_type == IF format = None THEN "csv" ELSE format
           status == IF st = None THEN "" ELSE st
           applied == IF valid THEN [course |-> c, student |-> s, status |-> st]
                      ELSE Unfiltered
           attendance_list ==
               order_by_date_desc(
                   IF valid
                     THEN filter_attendance(ReaderView, c, s, None, None, status)
                   ELSE ReaderView, scan)
       IN  IF valid /\ status = ""
             THEN out' = [op |-> "error", error |-> "ValidationError"]
           ELSE IF format_type = "csv"
             THEN out' = [op |-> "export", format |-> "csv", filter |-> applied,
                          body |-> csv_export(attendance_list)]
           ELSE IF format_type = "json"
             THEN out' = [op |-> "export", format |-> "json", filter |-> applied,
                          body |-> json_export(attendance_list)]
           ELSE out' = [op |-> "redirect", to |-> "attendance_reports"]
    /\ UNCHANGED <<web, calc, scan, registry, today, roster, attendance, auditlog, pc,
                   req, tx, resp>>

\* the (student, course, date) triples of the attendance history: every day
\* for course c1, the first day for course c2
StatKeys ==
    {k \in Students \X Courses \X (1..StatDays) :
        IF k[2] = "c1" THEN TRUE ELSE k[1] = 1 /\ k[3] = 1}

\* the table holding, for each triple, the row f says (or none); rows of c1
\* were marked by its teacher, rows of c2 were added without a marker
StatTable(f) ==
    {[pk |-> <<k[1], k[2], k[3], 0>>, student |-> k[1], course |-> k[2],
      date |-> k[3], status |-> (f[k] = "present"),
      marked_by |-> IF k[2] = "c1" THEN "t1" ELSE None] :
        k \in {x \in StatKeys : f[x] # "none"}}

\* the reports are computed on the last day of an attendance history
StatsInit ==
    /\ today = StatDays
    /\ roster = [c \in Courses |-> IF c = "c1" THEN Students ELSE {1}]
    /\ attendance \in {StatTable(f) : f \in [StatKeys -> {"none", "present", "absent"}]}
    /\ auditlog = <<>>
    /\ pc = [r \in Reqs |-> "idle"]
    /\ req = [r \in Reqs |-> NoReq]
    /\ tx = [r \in Reqs |-> NoTx]
    /\ resp = NoResp
    /\ student = Students
    /\ teacher = {"t1", "t2", "ta"}
    /\ course = Courses
    /\ grade = {}
    /\ assignment = {}
    /\ event = {}
    /\ calc = NoCalc
    /\ out = NoOut
    /\ scan \in ScanOrders
    /\ session = None
    /\ nav = NoNav
    /\ account = Users

StatsNext ==
    \/ \E s \in Students, c \in Courses : calculate_attendance_percentage(s, c)
    \/ PercentagePresent
    \/ \E c \in Courses : get_course_attendance_stats(c)

SpecStats == StatsInit /\ [][StatsNext]_vars

\* GET /attendance/reports/ by user u with the query parameters course,
\* student and status (None: not given), no page number: the same form and
\* filter as the export; the page shows the first 50 rows, which are all
\* the rows of these tables, and their number
attendance_reports(u, c, s, st) ==
    /\ is_admin(u) \/ is_teacher(u)
    /\ calc = NoCalc
    /\ LET bound == c # None \/ s # None \/ st # None
           valid == /\ bound
                    /\ c = None \/ c \in filter_courses(u)
                    /\ s = None \/ s \in filter_students(u)
           status == IF st = None THEN "" ELSE st
           attendance_list ==
               order_by_date_desc(
                   IF valid
                     THEN filter_attendance(ReaderView, c, s, None, None, status)
                   ELSE ReaderView, scan)
       IN  IF valid /\ status = ""
             THEN out' = [op |-> "error", error |-> "ValidationError"]
           ELSE out' = [op |-> "report",
                        filter |-> IF valid
                                     THEN [course |-> c, student |-> s, status |-> st]
                                   ELSE Unfiltered,
                        page_obj |-> attendance_list,
                        total_records |-> Len(attendance_list)]
    /\ UNCHANGED <<web, calc, scan, registry, today, roster, attendance, auditlog, pc,
                   req, tx, resp>>

\* the exports are made from the histories of the first MaxDate days
ExportInit ==
    /\ StatsInit
    /\ \A row \in attendance : row.date <= MaxDate

\* a teacher and the administrator export the attendance history and open
\* the attendance report
ExportNext ==
    \/ \E u \in {"t1", "adm"}, format \in {None, "csv", "json", "xlsx"},
          c \in Courses \cup {None}, st \in {None, "True", "False"} :
          export_attendance(u, format, c, None, st)
    \/ \E u \in {"t1", "adm"}, c \in Courses \cup {None},
          st \in {None, "True", "False"} :
          attendance_reports(u, c, None, st)

SpecExport == ExportInit /\ [][ExportNext]_vars

\* grades are entered through add_grade and through the admin site, with
\* every score and maximum score
GradeNext ==
    \/ \E u \in {"t1", "adm"}, s \in Students, c \in Courses,
          name \in AssignmentNames, score \in Scores, max_score \in Scores :
          add_grade(u, s, c, name, score, max_score)
    \/ \E s \in Students, c \in Courses, name \in AssignmentNames,
          score \in Scores, max_score \in Scores :
          GradeAdminAdd("adm", s, c, name, score, max_score)

SpecGrade == Init /\ [][GradeNext]_vars

\* the table is empty on a day on which every date of Dates has passed
ReportInit ==
    /\ StatsInit
    /\ attendance = {}
    /\ scan = "asc"

\* a student's percentage is computed while the course's teacher marks
\* attendance
ReportNext ==
    \/ Requests({1}, {"t1"})
    \/ \E s \in Students, c \in Courses : calculate_attendance_percentage(s, c)
    \/ PercentagePresent

SpecReport == ReportInit /\ [][ReportNext]_vars

\* the administrator edits the roster of a course while its teacher marks
\* attendance and the reports are computed
RosterNext ==
    \/ Requests({1}, {"t1"})
    \/ \E c \in EditedCourses, S \in EditedRosters : edit_course("adm", c, S)
    \/ \E s \in Students, c \in Courses : calculate_attendance_percentage(s, c)
    \/ PercentagePresent
    \/ \E c \in Courses : get_course_attendance_stats(c)

SpecRoster == Init /\ [][RosterNext]_vars

\* grades are added by the course's teacher and edited through the admin
\* site, the letter field left as it is or cleared
GradeEditNext ==
    \/ \E s \in Students, c \in Courses, name \in AssignmentNames,
          score \in Scores, max_score \in Scores :
          add_grade("t1", s, c, name, score, max_score)
    \/ \E g \in grade, score \in Scores, max_score \in Scores :
          \E letter \in {"", g.grade} :
             GradeAdminChange("adm", g, score, max_score, letter)

SpecGradeEdit == Init /\ [][GradeEditNext]_vars

\* the life cycle of students, courses and teachers: the course's teacher
\* marks attendance and adds grades and events while the administrator adds
\* assignments and deletes rows
LifeNext ==
    \/ Requests({1}, {"t1"})
    \/ \E s \in Students, c \in Courses, name \in AssignmentNames :
          add_grade("t1", s, c, name, MaxScore, MaxScore)
    \/ \E c \in Courses : AssignmentAdminAdd("adm", c)
    \/ \E c \in Courses \cup {None} : add_event("t1", c)
    \/ \E s \in Students : delete_student("adm", s)
    \/ \E c \in Courses : delete_course("adm", c)
    \/ \E t \in Users : delete_teacher("adm", t)
    \/ \E row \in attendance : AdminDelete("adm", row)

SpecLife == Init /\ [][LifeNext]_vars

\* ------------------------------------------------------------- login ----
\* the portals of the login page
Portals == {"teacher", "student"}
\* the role of login/<str:role>/ (None for the URLs '' and login/) and the
\* selected_role field of the login form (None when the field is absent)
Roles == {None, "teacher", "student", "admin"}
\* the user that registers through the registration form
NewUser == "reg"
Accounts == Users \cup {NewUser}
\* the password of user u
Password(u) == "pw-" \o u
\* the passwords a visitor types: the teacher's, the student's, or none
Passwords == {None, Password("t1"), Password("stu")}

\* django.contrib.auth.authenticate(): the user whose password was given
authenticate(username, password) ==
    IF username \in account /\ password = Password(username)
    THEN username ELSE None

\* the profile check of the selected portal accepts every user
portal_profile_Any(user, selected_role) == TRUE

\* is_teacher for the teacher portal, is_student for the student portal
portal_profile(user, selected_role) ==
    IF selected_role = "teacher" THEN is_teacher(user) ELSE is_student(user)

\* the response renders page p, with the message msg
Render(p, msg) ==
    nav' = [url |-> None, role |-> None, to |-> None, page |-> p,
            msg |-> msg]

\* the response redirects to the URL named to
Redirect(to, msg) ==
    nav' = [url |-> None, role |-> None, to |-> to, page |-> nav.page,
            msg |-> msg]

\* the browser waits for no response and has no redirect to follow
Settled == nav.url = None /\ nav.to = None

\* the URLs with a view of their own
UrlNames == {"login", "register", "dashboard", "teacher_dashboard",
             "student_dashboard"}

\* the visitor opens a URL; the dashboards are opened by signed-in users
Visit(url, role) ==
    /\ Settled
    /\ role # None => url = "login"
    /\ url \notin {"login", "register"} => session # None
    /\ nav' = [url |-> url, role |-> role, to |-> None, page |-> nav.page,
               msg |-> ""]
    /\ UNCHANGED <<session, account>>
    /\ UNCHANGED <<registry, reports, today, roster, attendance, auditlog,
                   pc, req, tx, resp>>

\* custom_login: a GET answers the pending request of the login URL, a POST
\* is a submission of the login form
custom_login(method, role, username, password, selected_role) ==
    /\ IF method = "GET" THEN nav.url = "login" /\ nav.role = role
                         ELSE Settled
    /\ LET sel == IF selected_role = None THEN role ELSE selected_role
           user == authenticate(username, password)
       IN  IF session # None
           THEN /\ Redirect(IF is_teacher(session) THEN "teacher_dashboard"
                            ELSE IF is_student(session)
                                 THEN "student_dashboard"
                                 ELSE "login", "")
                /\ session' = session
           ELSE IF role # None /\ role \notin Portals
           THEN /\ Redirect("login", "InvalidRole")
                /\ session' = session
           ELSE IF method # "POST"
           THEN /\ Render("login", "")
                /\ session' = session
           ELSE IF sel \notin Portals
           THEN /\ Redirect("login", "InvalidRole")
                /\ session' = session
           ELSE IF username = None \/ password = None
           THEN /\ Render("login", "MissingCredentials")
                /\ session' = session
           ELSE IF user = None
           THEN /\ Render("login", "InvalidCredentials")
                /\ session' = session
           ELSE IF ~portal_profile(user, sel)
           THEN /\ Render("login", IF sel = "teacher" THEN "NoTeacherProfile"
                                   ELSE "NoStudentProfile")
                /\ session' = session
           ELSE /\ session' = user
                /\ Redirect(IF sel = "teacher" THEN "teacher_dashboard"
                            ELSE "student_dashboard", "")
    /\ UNCHANGED account
    /\ UNCHANGED <<registry, reports, today, roster, attendance, auditlog,
                   pc, req, tx, resp>>

\* register: a signed-in visitor is sent to the dashboard; a valid form
\* (a username that is not taken) creates the user and signs it in
register(method, username) ==
    /\ IF method = "GET" THEN nav.url = "register" ELSE Settled
    /\ IF session # None
       THEN /\ Redirect("dashboard", "")
            /\ UNCHANGED <<session, account>>
       ELSE IF method = "POST" /\ username \notin account
       THEN /\ account' = account \cup {username}
            /\ session' = username
            /\ Redirect("dashboard", "Welcome")
       ELSE /\ Render("register", "")
            /\ UNCHANGED <<session, account>>
    /\ UNCHANGED <<registry, reports, today, roster, attendance, auditlog,
                   pc, req, tx, resp>>

\* dashboard, for a signed-in user
dashboard ==
    /\ nav.url = "dashboard"
    /\ session # None
    /\ IF is_admin(session) THEN Render("admin_dashboard", nav.msg)
       ELSE IF is_teacher(session)
            THEN Redirect("teacher_dashboard", nav.msg)
       ELSE IF is_student(session)
            THEN Redirect("student_dashboard", nav.msg)
       ELSE Render("admin_dashboard", nav.msg)
    /\ UNCHANGED <<session, account>>
    /\ UNCHANGED <<registry, reports, today, roster, attendance, auditlog,
                   pc, req, tx, resp>>

\* teacher_dashboard behind teacher_required, for a signed-in user
teacher_dashboard ==
    /\ nav.url = "teacher_dashboard"
    /\ session # None
    /\ IF is_teacher(session) THEN Render("teacher_dashboard", nav.msg)
       ELSE Render("403", "NotTeacher")
    /\ UNCHANGED <<session, account>>
    /\ UNCHANGED <<registry, reports, today, roster, attendance, auditlog,
                   pc, req, tx, resp>>

\* student_dashboard behind student_required, for a signed-in user
student_dashboard ==
    /\ nav.url = "student_dashboard"
    /\ session # None
    /\ IF is_student(session) THEN Render("student_dashboard", nav.msg)
       ELSE Render("403", "NotStudent")
    /\ UNCHANGED <<session, account>>
    /\ UNCHANGED <<registry, reports, today, roster, attendance, auditlog,
                   pc, req, tx, resp>>

\* the browser requests the URL it was redirected to
Follow ==
    /\ nav.to # None
    /\ nav' = [nav EXCEPT !.url = nav.to, !.to = None]
    /\ UNCHANGED <<session, account>>
    /\ UNCHANGED <<registry, reports, today, roster, attendance, auditlog,
                   pc, req, tx, resp>>

\* the server answers the request the browser is waiting for
Answer ==
    \/ \E role \in Roles : custom_login("GET", role, None, None, None)
    \/ register("GET", None)
    \/ dashboard
    \/ teacher_dashboard
    \/ student_dashboard

\* one visitor, anonymous or the administrator signed in through the admin
\* site, in front of the store of Init
LoginInit ==
    /\ today = 1
    /\ roster = [c \in Courses |-> IF c = "c1" THEN Students ELSE {1}]
    /\ attendance = {}
    /\ auditlog = <<>>
    /\ pc = [r \in Reqs |-> "idle"]
    /\ req = [r \in Reqs |-> NoReq]
    /\ tx = [r \in Reqs |-> NoTx]
    /\ resp = NoResp
    /\ student = Students
    /\ teacher = {"t1", "t2", "ta"}
    /\ course = Courses
    /\ grade = {}
    /\ assignment = {}
    /\ event = {}
    /\ calc = NoCalc
    /\ out = NoOut
    /\ scan = "asc"
    /\ session \in {None, "adm"}
    /\ nav = NoNav
    /\ account = Users

\* the visitor opens pages, submits the login and registration forms and
\* is answered, while the administrator deletes a teacher or a student
LoginNext ==
    \/ \E url \in UrlNames, role \in Roles : Visit(url, role)
    \/ \E role \in Roles, username \in Accounts \cup {None},
          password \in Passwords, selected_role \in Roles :
          custom_login("POST", role, username, password, selected_role)
    \/ register("POST", NewUser)
    \/ Answer
    \/ Follow
    \/ delete_teacher("adm", "t1")
    \/ delete_student("adm", 1)

SpecLogin == LoginInit /\ [][LoginNext]_vars

\* every request the browser is waiting for is answered, and the browser
\* follows every redirect it receives
SpecLoginFair == SpecLogin /\ WF_vars(Answer) /\ WF_vars(Follow)

\* ------------------------------------------------------------ claims ----
\* worker r is inside the atomic block of bulk_attendance
InBulk(r) == pc[r] \in {"bulk_upsert", "bulk_log"}

\* this step is a step of worker r
Stepped(r) == pc'[r] # pc[r] \/ tx'[r] # tx[r] \/ req'[r] # req[r]

\* this step is the successful end of worker r's bulk mark
Committed(r) == InBulk(r) /\ pc'[r] = "idle" /\ resp'.outcome = "ok"

\* the audit entries this step made visible
NewEntries == {auditlog'[i] : i \in (Len(auditlog) + 1)..Len(auditlog')}

\* the rows of (course, date) in a table
RowsOf(rel, c, d) == {row \in rel : row.course = c /\ row.date = d}

\* C1: in every reachable state the Attendance table holds at most one row
\* for each (student, course, date), whatever single marks, bulk marks and
\* admin edits came before.
C1_UniqueTriple ==
    \A a \in attendance, b \in attendance : Key(a) = Key(b) => a = b

\* C1 witness: a row that has been written more than once (created, then
\* updated by a later bulk mark) and is still the only row of its triple.
C1_Witness ==
    \E row \in attendance :
        /\ RowsAt(attendance, row.student, row.course, row.date) = {row}
        /\ \E i \in 1..Len(auditlog), j \in 1..Len(auditlog) :
              /\ i < j
              /\ auditlog[i].attendance = row.pk /\ auditlog[i].action = "CREATE"
              /\ auditlog[j].attendance = row.pk /\ auditlog[j].action = "UPDATE"

\* C2: when requests race to mark the same (student, course, date), every
\* attempt to store the row ends with exactly one row for that triple: the
\* single mark that loses fails on the constraint and changes nothing, a
\* bulk mark that loses updates the winner's row.
C2_RaceOneRow ==
    [][\A r \in Reqs :
         /\ (pc[r] = "mark_insert" /\ pc'[r] = "idle") =>
              /\ Cardinality(RowsAt(attendance', req[r].student, req[r].course,
                                    req[r].date)) = 1
              /\ resp'.outcome \in {"ok", "error"}
              /\ resp'.outcome = "error" =>
                   attendance' = attendance /\ auditlog' = auditlog
         /\ Committed(r) =>
              \A i \in 1..Len(tx[r].students) :
                 Cardinality(RowsAt(attendance', tx[r].students[i],
                                    req[r].course, req[r].date)) = 1
      ]_vars

\* C2 witness: a single mark passed both validations while no row existed
\* and then lost the race: its INSERT failed on the unique constraint.
C2_Witness ==
    /\ resp.outcome = "error"
    /\ resp.errors = {"IntegrityError"}
    /\ attendance # {}

\* C3: a bulk mark that fails part-way leaves the Attendance and AuditLog
\* tables as they were: no step of the failing invocation, the failure
\* included, changes either table.
C3_FailureLeavesNothing ==
    [][\A r \in Reqs :
         (InBulk(r) /\ Stepped(r) /\ ~Committed(r)) =>
            attendance' = attendance /\ auditlog' = auditlog
      ]_vars

\* C3 witness: a bulk mark has failed after at least one student's row had
\* been written and audited.
C3_Witness ==
    /\ resp.outcome = "error"
    /\ "DatabaseError" \in resp.errors
    /\ resp.marked_count >= 1

C5_ExactlyNRows ==
    [][\A r \in Reqs :
         Committed(r) =>
            LET N == Len(tx[r].students)
                c == req[r].course
                d == req[r].date
            IN  /\ Cardinality(RowsOf(attendance', c, d)) = N
                /\ \A i \in 1..N :
                      \E row \in attendance' :
                         /\ Key(row) = <<tx[r].students[i], c, d>>
                         /\ row.status = (tx[r].students[i] \in req[r].on)
                /\ Len(auditlog') = Len(auditlog) + N
                /\ resp'.marked_count = N
      ]_vars

\* C5 amended: a successful bulk mark of a roster of N students leaves, for
\* each rostered student, exactly one row of (course, date), with the
\* submitted status; the rows of (course, date) of students who are not on
\* the roster stay as they were; N audit entries are appended and
\* marked_count = N is reported.
C5_NRowsOfRoster ==
    [][\A r \in Reqs :
         Committed(r) =>
            LET N == Len(tx[r].students)
                c == req[r].course
                d == req[r].date
                S == {tx[r].students[i] : i \in 1..N}
            IN  /\ Cardinality(S) = N
                /\ \A s \in S :
                      /\ Cardinality(RowsAt(attendance', s, c, d)) = 1
                      /\ \A row \in RowsAt(attendance', s, c, d) :
                            row.status = (s \in req[r].on)
                /\ {row \in RowsOf(attendance', c, d) : row.student \notin S}
                     = {row \in RowsOf(attendance, c, d) : row.student \notin S}
                /\ Len(auditlog') = Len(auditlog) + N
                /\ resp'.marked_count = N
      ]_vars

\* C5 witness: a bulk mark of a one-student roster has succeeded on a
\* (course, date) that also holds the row of a student no longer enrolled.
C5_Witness ==
    /\ resp.outcome = "ok"
    /\ resp.marked_count = 1
    /\ \E a \in attendance, b \in attendance :
          /\ a.course = b.course /\ a.date = b.date
          /\ a.student \in roster[a.course]
          /\ b.student \notin roster[b.course]

\* C6 as claimed: every step that stores a new or changed Attendance row
\* makes exactly one new audit entry for that row visible, whose new_status
\* is the stored status.
C6_AuditPerWrite ==
    [][\A row \in attendance' :
         row \notin attendance =>
            Cardinality({i \in (Len(auditlog) + 1)..Len(auditlog') :
                           /\ auditlog'[i].attendance = row.pk
                           /\ auditlog'[i].new_status = NB(row.status)}) = 1
      ]_vars

\* C7 as claimed: an UPDATE audit entry carries the status the row had
\* before the update as old_status, a CREATE entry carries None.
C7_OldStatus ==
    [][\A e \in NewEntries :
         LET prior == {row \in attendance : row.pk = e.attendance}
         IN  IF e.action = "UPDATE"
               THEN \E row \in prior : e.old_status = NB(row.status)
             ELSE e.old_status = None
      ]_vars

\* C8: a bulk mark of a (course, date) updates the rows that exist and
\* creates the missing ones.  When every rostered student already has a row
\* the number of rows of (course, date) does not change, every such row
\* takes the submitted status, and the entries appended to the audit log
\* are one UPDATE per student, in roster order; for a student without a
\* row the entry is a CREATE.
C8_RemarkUpdatesInPlace ==
    [][\A r \in Reqs :
         Committed(r) =>
            LET N == Len(tx[r].students)
                c == req[r].course
                d == req[r].date
                had(s) == RowsAt(attendance, s, c, d) # {}
            IN  /\ Len(auditlog') = Len(auditlog) + N
                /\ \A i \in 1..N :
                      LET s == tx[r].students[i]
                          e == auditlog'[Len(auditlog) + i]
                      IN  /\ e.student = s /\ e.course = c /\ e.date = d
                          /\ e.action = (IF had(s) THEN "UPDATE" ELSE "CREATE")
                          /\ e.new_status = NB((s \in req[r].on))
                          /\ had(s) =>
                               Pks(RowsAt(attendance', s, c, d))
                                 = Pks(RowsAt(attendance, s, c, d))
                /\ (\A i \in 1..N : had(tx[r].students[i])) =>
                      Cardinality(RowsOf(attendance', c, d))
                        = Cardinality(RowsOf(attendance, c, d))
      ]_vars

\* C8 witness: two bulk marks of the same two-student roster, the second
\* with other statuses: the log holds two CREATE entries followed by two
\* UPDATE entries, and the table still holds two rows.
C8_Witness ==
    /\ Len(auditlog) = 4
    /\ Cardinality(attendance) = 2
    /\ \A i \in {1, 2} :
          /\ auditlog[i].action = "CREATE"
          /\ auditlog[i + 2].action = "UPDATE"
          /\ auditlog[i].student = i
          /\ auditlog[i + 2].attendance = auditlog[i].attendance
          /\ auditlog[i + 2].new_status # auditlog[i].new_status

\* C9 as claimed: a single mark for a student who is not in the course's
\* student set is always rejected with the not-enrolled error, and a
\* rejected request changes neither the Attendance nor the AuditLog table.
C9_AlwaysNotEnrolledError ==
    /\ [](\A u \in Users, s \in Students, c \in Courses, d \in Dates :
            (is_teacher(u) /\ s \notin roster[c]) =>
               "NotEnrolled" \in
                  AttendanceFormErrors(u, s, c, d, ReaderView, roster, today))
    /\ [][resp'.outcome \in {"rejected", "forbidden"} =>
             attendance' = attendance /\ auditlog' = auditlog]_vars

\* C9 amended: a single mark for a student who is not in the course's
\* student set is never accepted: the form rejects it, with the
\* not-enrolled error when the course is one the requesting teacher can
\* choose and with the invalid-choice error on the course otherwise, and a
\* rejected request changes neither the Attendance nor the AuditLog table.
C9_NotEnrolledRejected ==
    /\ [](\A u \in Users, s \in Students, c \in Courses, d \in Dates :
            s \notin roster[c] =>
               LET errs == AttendanceFormErrors(u, s, c, d, ReaderView,
                                                roster, today)
               IN  IF c \in mark_courses(u) THEN "NotEnrolled" \in errs
                   ELSE "InvalidChoice" \in errs /\ "NotEnrolled" \notin errs)
    /\ [][/\ \A r \in Reqs :
               (pc[r] = "idle" /\ pc'[r] = "mark_clean") =>
                  req'[r].student \in roster[req'[r].course]
          /\ resp'.outcome \in {"rejected", "forbidden"} =>
                attendance' = attendance /\ auditlog' = auditlog
         ]_vars

\* C9 witness: a mark for a student who is not enrolled has just been
\* rejected with the not-enrolled error.
C9_Witness ==
    /\ resp.outcome = "rejected"
    /\ resp.errors = {"NotEnrolled"}
    /\ roster["c1"] # Students

\* C10: a single or bulk mark dated after today is rejected with the
\* future-date error and never accepted, and no Attendance row, stored or
\* uncommitted, is dated after today.
C10_NoFutureDate ==
    /\ [](/\ \A u \in Users, s \in Students, c \in Courses, d \in Dates :
               d > today =>
                  /\ "FutureDate" \in
                        AttendanceFormErrors(u, s, c, d, ReaderView, roster, today)
                  /\ "FutureDate" \in BulkFormErrors(u, c, d, today)
          /\ \A row \in Dirty \cup attendance : row.date <= today)
    /\ [][\A r \in Reqs :
             (pc[r] = "idle" /\ pc'[r] # "idle") => req'[r].date <= today
         ]_vars

\* C10 witness: a request dated after today has just been rejected with the
\* future-date error.
C10_Witness ==
    /\ resp.outcome = "rejected"
    /\ "FutureDate" \in resp.errors

\* C11 as claimed: a step that deletes an Attendance row (directly or
\* through the cascade from its student, course or teacher) keeps every
\* audit entry that referenced the row, with the attendance reference null
\* and the action, date and statuses as they were; no step makes the audit
\* log shorter.
C11_AuditSurvivesDelete ==
    [][/\ Len(auditlog') >= Len(auditlog)
       /\ \A i \in 1..Len(auditlog) :
             (/\ auditlog[i].attendance \in Pks(attendance)
              /\ auditlog[i].attendance \notin Pks(attendance')) =>
                /\ auditlog'[i].attendance = None
                /\ auditlog'[i].action = auditlog[i].action
                /\ auditlog'[i].date = auditlog[i].date
                /\ auditlog'[i].old_status = auditlog[i].old_status
                /\ auditlog'[i].new_status = auditlog[i].new_status
      ]_vars

\* C12: every call of log_attendance_change adds exactly one entry (to the
\* log for a single mark, to the transaction's entries for a bulk mark) and
\* changes no earlier entry; in every step of single marks, bulk marks and
\* admin edits the committed audit log keeps its earlier contents as a
\* prefix.
C12_AuditAppendOnly ==
    [][/\ Len(auditlog') >= Len(auditlog)
       /\ SubSeq(auditlog', 1, Len(auditlog)) = auditlog
       /\ \A r \in Reqs :
             /\ (pc[r] = "mark_insert" /\ pc'[r] = "idle" /\ resp'.outcome = "ok") =>
                   Len(auditlog') = Len(auditlog) + 1
             /\ (pc[r] = "bulk_log" /\ pc'[r] = "bulk_upsert") =>
                   /\ Len(tx'[r].log) = Len(tx[r].log) + 1
                   /\ SubSeq(tx'[r].log, 1, Len(tx[r].log)) = tx[r].log
                   /\ auditlog' = auditlog
             /\ Committed(r) => auditlog' = auditlog \o tx[r].log
      ]_vars

\* C12 witness: the log holds the entry of a single mark followed by the
\* entries of a later bulk mark that updated the same row.
C12_Witness ==
    /\ Len(auditlog) >= 3
    /\ auditlog[1].action = "CREATE"
    /\ auditlog[1].user = "t1"
    /\ \E i \in 2..Len(auditlog) :
          /\ auditlog[i].action = "UPDATE"
          /\ auditlog[i].attendance = auditlog[1].attendance
          /\ auditlog[i].user = "adm"

\* C13: the percentage returned for a (student, course) pair is 0 when the
\* pair has no Attendance row, and otherwise is the multiple of 0.01 nearest
\* to 100 * present / total, where present and total count the rows of that
\* pair and no others.
C13_PercentageOfPair ==
    out.op = "percentage" =>
       LET rows == {row \in attendance :
                      row.student = out.student /\ row.course = out.course}
           total == Cardinality(rows)
           present == Cardinality({row \in rows : row.status = TRUE})
           diff == out.value * total - 10000 * present
       IN  IF total = 0 THEN out.value = 0
           ELSE 2 * diff <= total /\ -2 * diff <= total

\* C13 witness: 66.67 has been returned for a pair with two present rows
\* out of three, for a student who also has a row in another course.
C13_Witness ==
    /\ out.op = "percentage"
    /\ out.value = 6667
    /\ \E row \in attendance :
          row.student = out.student /\ row.course # out.course /\ ~row.status

\* C14: the course report counts the rows of the course and no others:
\* total_records is their number and equals present_count + absent_count,
\* total_classes is the number of distinct dates among them, and
\* average_attendance is the multiple of 0.01 nearest to
\* 100 * present_count / total_records (0 when the course has no row), the
\* course-wide ratio.
C14_CourseStats ==
    out.op = "stats" =>
       LET rows == {row \in attendance : row.course = out.course}
           present == Cardinality({row \in rows : row.status = TRUE})
           absent == Cardinality({row \in rows : row.status = FALSE})
           diff == out.average_attendance * out.total_records - 10000 * present
       IN  /\ out.total_records = Cardinality(rows)
           /\ out.present_count = present
           /\ out.absent_count = absent
           /\ out.total_records = out.present_count + out.absent_count
           /\ out.total_classes =
                Cardinality({d \in 1..StatDays : \E row \in rows : row.date = d})
           /\ IF out.total_records = 0 THEN out.average_attendance = 0
              ELSE /\ 2 * diff <= out.total_records
                   /\ -2 * diff <= out.total_records

\* C14 witness: a report of 25.00 for a course where student 1 was present
\* on the one day marked for them and student 2 absent on three days (the
\* mean of the two students' percentages is 50), while the other course has
\* a row too.
C14_Witness ==
    /\ out.op = "stats"
    /\ out.total_records = 4 /\ out.present_count = 1 /\ out.absent_count = 3
    /\ out.total_classes = 3
    /\ out.average_attendance = 2500
    /\ \E row \in attendance :
          row.course = out.course /\ row.student = 1 /\ row.status
    /\ \E row \in attendance : row.course # out.course

\* C15: a bulk mark is accepted only from a staff user or from the teacher
\* who owns the course; a request that is denied or rejected changes no
\* Attendance row and no audit entry; and no step of a request of a teacher
\* without staff status changes a row of a course owned by another teacher.
C15_BulkAuthorized ==
    [][/\ \A r \in Reqs :
             /\ (pc[r] = "idle" /\ pc'[r] = "bulk_upsert") =>
                   \/ req'[r].user \in {"adm", "ta"}
                   \/ CourseTeacher(req'[r].course) = req'[r].user
             /\ (Stepped(r) /\ pc[r] # "idle" /\ req[r].user \in {"t1", "t2"}) =>
                   \A c \in Courses :
                      CourseTeacher(c) # req[r].user =>
                         RowsOfCourse(attendance', c) = RowsOfCourse(attendance, c)
       /\ resp'.outcome \in {"forbidden", "rejected"} =>
             attendance' = attendance /\ auditlog' = auditlog
      ]_vars

\* C15 witness: a request has just been denied for lack of a teacher or
\* staff role, while the table holds a row of each course, the one of c1
\* written by its teacher and the one of c2 by the administrator.
C15_Witness ==
    /\ resp.outcome = "forbidden"
    /\ \E a \in attendance : a.course = "c1" /\ a.marked_by = "t1"
    /\ \E b \in attendance : b.course = "c2" /\ b.marked_by = "adm"

\* C16 as claimed: a bulk mark of any existing course on a date that is not
\* in the future passes the form and the ownership check whenever the
\* requesting user is staff, with or without a Teacher profile.
C16_AdminMarksAnyCourse ==
    [](\A u \in Users, c \in course, d \in Dates :
          (is_admin(u) /\ d <= today) =>
             /\ BulkFormErrors(u, c, d, today) = {}
             /\ ~(is_teacher(u) /\ CourseTeacher(c) # u))

C18_GradeLetter ==
    \A g \in grade :
       LET atLeast(t) == g.score * 100 >= t * g.max_score
       IN  IF g.max_score <= 0 THEN g.grade = ""
           ELSE /\ g.grade = "A" <=> atLeast(90)
                /\ g.grade = "B" <=> (atLeast(80) /\ ~atLeast(90))
                /\ g.grade = "C" <=> (atLeast(70) /\ ~atLeast(80))
                /\ g.grade = "D" <=> (atLeast(60) /\ ~atLeast(70))
                /\ g.grade = "F" <=> ~atLeast(60)

\* C18 witness: a grade of exactly 90 percent (9 of 10) carries the letter A.
C18_Witness ==
    \E g \in grade :
       g.max_score = MaxScore /\ g.score * 10 = 9 * g.max_score /\ g.grade = "A"

\* every stored row refers to rows that exist
ReferencesExist ==
    /\ \A row \in attendance : row.student \in student /\ row.course \in course
    /\ \A g \in grade : g.student \in student /\ g.course \in course
    /\ \A a \in assignment : a.course \in course
    /\ \A e \in event : e.course = None \/ e.course \in course
    /\ \A c \in course : CourseTeacher(c) \in teacher

\* C19: a step that deletes a student leaves no Attendance or Grade row of
\* that student; a step that deletes a course leaves no Attendance, Grade,
\* Assignment or Event row of that course; a step that deletes a teacher
\* deletes the teacher's courses; and in every state reached by marks,
\* grade, assignment and event creations and deletes, every Attendance row
\* (and every Grade, Assignment and Event row) refers to an existing
\* student and course.
C19_CascadeKeepsReferences ==
    /\ []ReferencesExist
    /\ [][/\ \A s \in student \ student' :
                /\ \A row \in attendance' : row.student # s
                /\ \A g \in grade' : g.student # s
          /\ \A c \in course \ course' :
                /\ \A row \in attendance' : row.course # c
                /\ \A g \in grade' : g.course # c
                /\ \A a \in assignment' : a.course # c
                /\ \A e \in event' : e.course # c
          /\ \A t \in teacher \ teacher' :
                \A c \in course' : CourseTeacher(c) # t
         ]_vars

\* C19 witness: student 1 was deleted while a mark for that student was in
\* progress, the mark was refused, and the attendance of student 2 is still
\* stored.
C19_Witness ==
    /\ 1 \notin student
    /\ 2 \in student
    /\ resp.outcome = "error"
    /\ resp.errors \cap {"DoesNotExist", "IntegrityError"} # {}
    /\ \E row \in attendance : row.student = 2
    /\ \A row \in attendance : row.student # 1

\* the stored rows an export with the applied filter f lists
Exported(f) ==
    filter_attendance(attendance, f.course, f.student, None, None, f.status)

\* the CSV row cells and the JSON object obj are the stored row
CsvRowOf(cells, row) ==
    /\ Len(cells) = 6
    /\ cells[1] = str_date(row.date)
    /\ cells[2] = Student_name(row.student)
    /\ cells[3] = ToString(Student_roll_no(row.student))
    /\ cells[4] = Course_name(row.course)
    /\ cells[5] = (IF row.status THEN "Present" ELSE "Absent")
    /\ cells[6] = (IF row.marked_by = None THEN "N/A" ELSE row.marked_by)
JsonObjectOf(obj, row) ==
    /\ DOMAIN obj = {"date", "student_name", "roll_no", "course", "status",
                     "marked_by"}
    /\ obj.date = str_date(row.date)
    /\ obj.student_name = Student_name(row.student)
    /\ obj.roll_no = Student_roll_no(row.student)
    /\ obj.course = Course_name(row.course)
    /\ obj.status = (IF row.status THEN "Present" ELSE "Absent")
    /\ obj.marked_by = (IF row.marked_by = None THEN "N/A" ELSE row.marked_by)

\* the CSV body and the JSON body list the same rows in the same order
SameListing(csv, json) ==
    /\ Len(csv) = Len(json) + 1
    /\ \A i \in 1..Len(json) :
          \E row \in attendance : CsvRowOf(csv[i + 1], row) /\ JsonObjectOf(json[i], row)

C21_AddGradeRejectsBadScores ==
    [][\A u \in Users, s \in Students, c \in Courses, name \in AssignmentNames,
         score \in Scores, max_score \in Scores :
          add_grade(u, s, c, name, score, max_score) =>
             (score <= max_score /\ score >= 0)
      ]_vars

\* C22 as claimed: a single mark that is both for a student who is not
\* enrolled and for a future date is rejected with the not-enrolled reason
\* and not with the future-date one.
C22_NotEnrolledReportedAlone ==
    \A u \in Users, s \in Students, c \in Courses, d \in Dates :
       (is_teacher(u) /\ s \notin roster[c] /\ d > today) =>
          LET errs == AttendanceFormErrors(u, s, c, d, ReaderView, roster, today)
          IN  "NotEnrolled" \in errs /\ "FutureDate" \notin errs

\* C22 amended: Attendance.clean checks enrollment before the date and
\* reports the first failure only, so for a row that fails both it reports
\* the not-enrolled reason alone; a single mark that fails both is rejected
\* by the form of mark_attendance with the future-date error of the date
\* field together with the not-enrolled error when the course is one of the
\* teacher's own, and together with the invalid-choice error, without the
\* not-enrolled one, otherwise; no such mark is accepted and a rejected
\* request stores nothing.
C22_EnrollmentBeforeDate ==
    /\ [](\A s \in Students, c \in Courses, d \in Dates :
            (s \notin roster[c] /\ d > today) =>
               /\ clean(s, c, d, roster, today) = {"NotEnrolled"}
               /\ \A u \in Users :
                     AttendanceFormErrors(u, s, c, d, ReaderView, roster, today)
                        = IF c \in course /\ CourseTeacher(c) = u
                            THEN {"FutureDate", "NotEnrolled"}
                          ELSE {"FutureDate", "InvalidChoice"})
    /\ [][/\ \A r \in Reqs :
               (pc[r] = "idle" /\ pc'[r] = "mark_clean") =>
                  /\ req'[r].student \in roster[req'[r].course]
                  /\ req'[r].date <= today
          /\ resp'.outcome = "rejected" =>
                attendance' = attendance /\ auditlog' = auditlog
         ]_vars

\* C22 witness: a single mark for a student who is not enrolled, dated after
\* today, has just been rejected with both errors.
C22_Witness ==
    /\ resp.outcome = "rejected"
    /\ resp.errors = {"FutureDate", "NotEnrolled"}
    /\ \E s \in Students, c \in Courses, d \in Dates :
          s \notin roster[c] /\ d > today /\ CourseTeacher(c) \in Actors

\* C23: a single mark for a (student, course, date) that already has a row
\* is rejected, as a duplicate when nothing else is wrong with it; no step
\* of a single mark changes or removes a stored row, and it appends an
\* audit entry only together with a row for a key that had none.  A bulk
\* mark of the same key keeps the row and gives it the submitted status and
\* the submitting user as marker.
C23_SingleMarkRejectsDuplicate ==
    /\ [](\A u \in Users, s \in Students, c \in Courses, d \in Dates :
            RowsAt(attendance, s, c, d) # {} =>
               LET errs == AttendanceFormErrors(u, s, c, d, ReaderView, roster,
                                                today)
               IN  /\ errs # {}
                   /\ (c \in mark_courses(u) /\ s \in roster[c] /\ d <= today)
                         => errs = {"DuplicateRecord"})
    /\ [][\A r \in Reqs :
            /\ (\/ pc[r] \in {"mark_clean", "mark_insert"} /\ Stepped(r)
                \/ pc[r] = "idle" /\ pc'[r] = "mark_clean"
                \/ pc[r] = "idle" /\ resp'.outcome \in {"rejected", "forbidden"}) =>
                  /\ attendance \subseteq attendance'
                  /\ \A row \in attendance' \ attendance :
                        RowsAt(attendance, row.student, row.course, row.date) = {}
                  /\ Len(auditlog') = Len(auditlog)
                                        + Cardinality(attendance' \ attendance)
                  /\ SubSeq(auditlog', 1, Len(auditlog)) = auditlog
            /\ Committed(r) =>
                  \A old \in RowsOf(attendance, req[r].course, req[r].date) :
                     old.student \in {tx[r].students[i] : i \in 1..Len(tx[r].students)}
                        => \E new \in attendance' :
                              /\ new.pk = old.pk
                              /\ new.status = (old.student \in req[r].on)
                              /\ new.marked_by = req[r].user
         ]_vars

\* C23 witness: a single mark for a key that has a row has just been
\* rejected as a duplicate.
C23_Witness ==
    /\ resp.outcome = "rejected"
    /\ resp.errors = {"DuplicateRecord"}
    /\ attendance # {}

\* C24: a save of a Grade row whose submitted letter is not empty stores
\* that letter, whatever the new score and max_score are, and a save with
\* the letter cleared stores the letter of the new score and max_score
\* (none when max_score <= 0).
C24_LetterOnlyWhenBlank ==
    [][\A g \in grade, new \in grade' \ grade :
          \A letter \in {"", g.grade} :
             GradeAdminChange("adm", g, new.score, new.max_score, letter) =>
             new.grade = IF letter # "" THEN g.grade
                         ELSE calculate_grade(new.score, new.max_score)
      ]_vars

\* C24 witness: a stored letter that is not the letter of the row's current
\* score and max_score: the score was changed after the letter was computed.
C24_Witness ==
    \E g \in grade :
       /\ g.grade = "A"
       /\ g.max_score = MaxScore
       /\ g.score = 0

\* C25 as claimed: every percentage returned lies between 0 and 100, also
\* when attendance is written between the two queries of the computation.
C25_PercentageInRange ==
    out.op = "percentage" => (out.value >= 0 /\ out.value <= 10000)

\* C26: a step of edit_course leaves the Attendance table as it was; the
\* course report counts every row of the course in total_records, the rows
\* of students who are no longer on the roster included, while
\* enrolled_students is the size of the roster; the percentage of a pair
\* counts every row of the pair whether or not the student is still on the
\* roster; and the commit of a bulk mark leaves the rows of students who
\* were not on the roster it read as they were.
C26_RemovalKeepsAttendance ==
    [][/\ roster' # roster => attendance' = attendance
       /\ \A c \in Courses :
             get_course_attendance_stats(c) =>
                /\ out'.total_records
                     = Cardinality({row \in attendance : row.course = c})
                /\ out'.enrolled_students = Cardinality(roster[c])
       /\ \A s \in Students, c \in Courses :
             calculate_attendance_percentage(s, c) =>
                LET n == Cardinality({row \in attendance :
                                        row.student = s /\ row.course = c})
                IN  IF n = 0 THEN out'.op = "percentage" /\ out'.value = 0
                    ELSE calc'.total_records = n
       /\ \A r \in Reqs :
             Committed(r) =>
                \A row \in attendance :
                   row.student \notin {tx[r].students[i] :
                                         i \in 1..Len(tx[r].students)}
                      => row \in attendance'
      ]_vars

\* C26 witness: after student 2 was removed from the roster of c1, a bulk
\* mark of c1 has marked the one student left, student 2's row is still
\* stored, and the course report counts two records for one enrolled student.
C26_Witness ==
    /\ roster["c1"] = {1}
    /\ resp.outcome = "ok" /\ resp.marked_count = 1
    /\ \E row \in attendance : row.course = "c1" /\ row.student = 2
    /\ out.op = "stats" /\ out.course = "c1"
    /\ out.enrolled_students = 1
    /\ out.total_records = 2

\* C27: the commit of a bulk mark whose submitted status for every student
\* of the roster is the status already stored for that student leaves the
\* number of rows and the status of every Attendance row as they were, and
\* appends one UPDATE entry per student of the roster, in roster order,
\* carrying the submitted status.
C27_BulkIdempotent ==
    [][\A r \in Reqs :
         (/\ Committed(r)
          /\ \A i \in 1..Len(tx[r].students) :
                \E row \in RowsAt(attendance, tx[r].students[i],
                                  req[r].course, req[r].date) :
                   row.status = (tx[r].students[i] \in req[r].on)) =>
            /\ Pks(attendance') = Pks(attendance)
            /\ \A row \in attendance : \E new \in attendance' :
                  new.pk = row.pk /\ new.status = row.status
            /\ Len(auditlog') = Len(auditlog) + Len(tx[r].students)
            /\ \A i \in 1..Len(tx[r].students) :
                  LET e == auditlog'[Len(auditlog) + i]
                  IN  /\ e.action = "UPDATE"
                      /\ e.student = tx[r].students[i]
                      /\ e.new_status = NB((tx[r].students[i] \in req[r].on))
      ]_vars

\* C27 witness: the same bulk mark of a two-student roster was committed
\* twice: two CREATE entries, then two UPDATE entries for the same rows with
\* the same statuses.
C27_Witness ==
    /\ Len(auditlog) = 4
    /\ Cardinality(attendance) = 2
    /\ resp.outcome = "ok" /\ resp.marked_count = 2
    /\ \A i \in {1, 2} :
          /\ auditlog[i].action = "CREATE"
          /\ auditlog[i + 2].action = "UPDATE"
          /\ auditlog[i + 2].attendance = auditlog[i].attendance
          /\ auditlog[i + 2].new_status = auditlog[i].new_status
          /\ \E row \in attendance :
                row.pk = auditlog[i].attendance
                  /\ NB(row.status) = auditlog[i].new_status

\* the names of the courses of the rows an export lists
ListedCourses(o) ==
    IF o.format = "csv" THEN {o.body[i][4] : i \in 2..Len(o.body)}
    ELSE {o.body[i].course : i \in 1..Len(o.body)}

\* C28 as claimed: whatever parameters teacher t1, who is not an
\* administrator, gives to the attendance export and to the attendance
\* report, every row listed is a row of a course that t1 teaches.
C28_TeacherSeesOwnCoursesOnly ==
    [][\A c \in Courses \cup {None}, st \in {None, "True", "False"} :
          /\ \A format \in {None, "csv", "json"} :
                (export_attendance("t1", format, c, None, st)
                   /\ out'.op = "export") =>
                   \A n \in ListedCourses(out') :
                      \E own \in Courses :
                         CourseTeacher(own) = "t1" /\ n = Course_name(own)
          /\ (attendance_reports("t1", c, None, st) /\ out'.op = "report") =>
                \A i \in 1..Len(out'.page_obj) :
                   CourseTeacher(out'.page_obj[i].course) = "t1"
      ]_vars

\* C29: custom_login signs the visitor in only when the form is posted to a
\* portal with a username and a password that authenticate and the user has
\* the profile of the selected portal (a Teacher row for the teacher portal,
\* a Student row for the student portal); the session is then that user's.
\* After every other request to custom_login (a GET, a missing field, a
\* wrong password, a profile of the other portal, a role that is neither
\* teacher nor student) the visitor is still anonymous.
C29_LoginOnlyWithMatchingProfile ==
    [][\A method \in {"GET", "POST"}, role \in Roles,
          username \in Accounts \cup {None}, password \in Passwords,
          selected_role \in Roles :
          (/\ session = None
           /\ custom_login(method, role, username, password, selected_role))
          => LET sel == IF selected_role = None THEN role ELSE selected_role
                 granted ==
                     /\ method = "POST"
                     /\ role \in Portals \cup {None}
                     /\ sel \in Portals
                     /\ username \in account
                     /\ password # None
                     /\ password = Password(username)
                     /\ sel = "teacher" => username \in teacher
                     /\ sel = "student" =>
                            \E s \in student : StudentUser(s) = username
             IN  session' = IF granted THEN username ELSE None]_vars

\* the student's user gave its own password at the teacher portal and is
\* shown the login page again, still anonymous
C29_Witness ==
    /\ session = None
    /\ Settled
    /\ nav.page = "login"
    /\ nav.msg = "NoTeacherProfile"
    /\ is_student("stu")

\* C30: whenever a signed-in visitor requests the login URL, the redirects
\* that follow end at a rendered page: eventually the browser waits for no
\* response and has no redirect left to follow.
C30_LoginRedirectsEnd ==
    (session # None /\ nav.url = "login") ~> Settled
====
